---- MODULE Spec2Model ----
(***************************************************************************)
(* The Albums demo application: the route table and HomeController of      *)
(* client/app/app.js and the rootTest directive of                         *)
(* client/app/directives/root.directive.js, run by the host framework      *)
(* (ngRoute, ngView, $rootScope events, $http).                            *)
(*                                                                         *)
(* A path is the sequence of its segments after the leading slash:         *)
(* "/album/a" is <<"album", "a">>, "/" is <<"">>.  A string built by       *)
(* Array.join is the record of its character and its length.  Templates    *)
(* named by templateUrl are served from the template cache, so the only    *)
(* asynchronous part of a route change is the album resolve.  Paths are    *)
(* taken without the trailing-slash variants of the route patterns, which  *)
(* the router redirects to the pattern itself.                             *)
(***************************************************************************)
EXTENDS Naturals, Integers, Sequences, FiniteSets, TLC

VARIABLES
    path,        \* $location.path()
    lastNav,     \* the path asked for by the last $location.path(p) call
    navs,        \* number of $location.path(p) calls so far
    pc,          \* position in the synchronous part of a route change
    current,     \* $route.current
    rootChanges, \* number of committed route changes into /root
    requests,    \* the $http.get calls of the album resolve, with their promises
    view,        \* what ng-view shows
    insts,       \* the rootTest instances created so far (scope and element)
    listeners,   \* $rootScope.$$listeners['someEvent']
    broadcasts,  \* number of 'someEvent' broadcasts so far
    ctlCall,     \* the last HomeController function run: n for $scope.scenario<n>,
                 \* 5 for $scope.isActive, 0 at start
    svcLog,      \* the ScenariosService scenarios that call called, in order
    isActiveArg, \* the viewLocation of that call when it was isActive
    isActiveRet, \* what that isActive call returned
    homeScope,   \* the properties of HomeController's $scope
    rootScopeVal, \* $rootScope.val
    fix          \* TRUE iff the $destroy handler of rootTest is enabled

vars == <<path, lastNav, navs, pc, current, rootChanges, requests, view, insts,
          listeners, broadcasts, ctlCall, svcLog, isActiveArg, isActiveRet,
          homeScope, rootScopeVal, fix>>

(* ------------------------------ bounds --------------------------------- *)

MaxNav == 3
MaxBroadcast == 2

(* ------------------------------ inputs --------------------------------- *)

Paths ==
    { <<"">>, <<"nowhere">>, <<"root">>, <<"scope">>, <<"toprated">>,
      <<"album", "">>, <<"album", "a">>, <<"album", "b">> }

AlbumData == {"India", "Nepal"}

NoResponse == [kind |-> "pending", status |-> 0, data |-> ""]

Responses ==
    [kind : {"ok"}, status : {200}, data : AlbumData]
        \cup [kind : {"error"}, status : {500}, data : {""}]

(* ------------------------- route table (app.js) ------------------------ *)

Lit(s) == [kind |-> "lit", name |-> s]
Param(s) == [kind |-> "param", name |-> s]

routesSwapped ==
    << [path |-> <<Lit("album"), Param("albumId")>>,
        templateUrl |-> "app/album/album.html", template |-> <<>>,
        controller |-> "AlbumController", resolve |-> {"album"}],
       [path |-> <<Lit("toprated")>>,
        templateUrl |-> "app/toprated/toprated.html", template |-> <<>>,
        controller |-> "TopRatedController", resolve |-> {}],
       [path |-> <<Lit("root")>>,
        templateUrl |-> "", template |-> <<"div", "scope-test">>,
        controller |-> "", resolve |-> {}],
       [path |-> <<Lit("scope")>>,
        templateUrl |-> "", template |-> <<"div", "root-test">>,
        controller |-> "", resolve |-> {}] >>

routes ==
    << [path |-> <<Lit("album"), Param("albumId")>>,
        templateUrl |-> "app/album/album.html", template |-> <<>>,
        controller |-> "AlbumController", resolve |-> {"album"}],
       [path |-> <<Lit("toprated")>>,
        templateUrl |-> "app/toprated/toprated.html", template |-> <<>>,
        controller |-> "TopRatedController", resolve |-> {}],
       [path |-> <<Lit("root")>>,
        templateUrl |-> "", template |-> <<"div", "root-test">>,
        controller |-> "", resolve |-> {}],
       [path |-> <<Lit("scope")>>,
        templateUrl |-> "", template |-> <<"div", "scope-test">>,
        controller |-> "", resolve |-> {}] >>

otherwiseTopRated ==
    [path |-> <<>>,
     templateUrl |-> "app/toprated/toprated.html", template |-> <<>>,
     controller |-> "TopRatedController", resolve |-> {}]

otherwise ==
    [path |-> <<>>,
     templateUrl |-> "app/albums/albums.html", template |-> <<>>,
     controller |-> "AlbumsController", resolve |-> {}]

\* A path matches a route pattern when every literal segment is equal and
\* every parameter segment is a non-empty segment.
switchRouteMatcher(on, pattern) ==
    /\ Len(on) = Len(pattern)
    /\ \A k \in 1..Len(pattern) :
          IF pattern[k].kind = "param" THEN on[k] # "" ELSE on[k] = pattern[k].name

matching(on) == {r \in 1..Len(routes) : switchRouteMatcher(on, routes[r].path)}

\* The first matching `when` entry, 0 (the otherwise entry) when none matches.
parseRoute(on) ==
    IF matching(on) = {} THEN 0
    ELSE CHOOSE r \in matching(on) : \A q \in matching(on) : r <= q

routeDef(r) == IF r = 0 THEN otherwise ELSE routes[r]

routeParamsStale(on, r) ==
    IF r # 0 /\ r = current.route THEN current.params
    ELSE IF r = 0 THEN <<>>
    ELSE LET pat == routes[r].path
             keys == {k \in 1..Len(pat) : pat[k].kind = "param"}
         IN  [n \in {pat[k].name : k \in keys} |->
                 on[CHOOSE k \in keys : pat[k].name = n]]

routeParams(on, r) ==
    IF r = 0 THEN <<>>
    ELSE LET pat == routes[r].path
             keys == {k \in 1..Len(pat) : pat[k].kind = "param"}
         IN  [n \in {pat[k].name : k \in keys} |->
                 on[CHOOSE k \in keys : pat[k].name = n]]

(* ----------------------- album resolve (app.js) ------------------------ *)

albumUrlNoId(params) == "api/album/"

albumUrl(params) == "api/album/" \o params["albumId"]

thenData(response) == response.data

NoPromise == [state |-> "pending", value |-> "", reason |-> NoResponse]

albumPromiseRecover(response) ==
    [state |-> "fulfilled", value |-> thenData(response), reason |-> NoResponse]

\* $http.get(...).then(success): a success is mapped by the callback, a
\* failure passes through, there being no error callback.
albumPromise(response) ==
    IF response.kind = "ok"
    THEN [state |-> "fulfilled", value |-> thenData(response), reason |-> NoResponse]
    ELSE [state |-> "rejected", value |-> "", reason |-> response]

(* --------------------- rootTest (root.directive.js) -------------------- *)

ArrayLen == 999999

joinOffByOne(n, sep) == [defined |-> TRUE, ch |-> sep, len |-> n]

\* (new Array(n)).join(sep) for a one-character separator: n empty slots
\* give n - 1 separators.
join(n, sep) == [defined |-> TRUE, ch |-> sep, len |-> IF n = 0 THEN 0 ELSE n - 1]

Undefined == [defined |-> FALSE, ch |-> "", len |-> 0]

newInst(g) ==
    [state |-> "compiled", attached |-> TRUE, val |-> Undefined,
     tooltips |-> 0, gen |-> g]

\* The listener closes over the scope and the element of its instance.
someEventListener(i) == [scope |-> i, element |-> i]

linkInstsShared(is, i) ==
    [is EXCEPT ![i].state = "linked", ![1].val = join(ArrayLen, "x")]

linkInstsNoVal(is, i) == [is EXCEPT ![i].state = "linked"]

\* link: scope.val = ...; var cleanUp = $rootScope.$on('someEvent', ...)
linkInsts(is, i) ==
    [is EXCEPT ![i].state = "linked", ![i].val = join(ArrayLen, "x")]

linkListenersTwice(ls, i) ==
    Append(Append(ls, someEventListener(i)), someEventListener(i))

linkListeners(ls, i) == Append(ls, someEventListener(i))

callbackAppend(is, i) ==
    [is EXCEPT ![i].tooltips = @ + 1,
               ![i].val = [@ EXCEPT !.len = @ + join(ArrayLen, "x").len]]

\* The 'someEvent' callback of instance i.
callback(is, i) ==
    [is EXCEPT ![i].tooltips = @ + 1, ![i].val = join(ArrayLen, "x")]

RECURSIVE broadcastLiveOnly(_, _)
broadcastLiveOnly(is, ls) ==
    IF ls = <<>> THEN is
    ELSE IF is[Head(ls).scope].state = "destroyed"
         THEN broadcastLiveOnly(is, Tail(ls))
         ELSE broadcastLiveOnly(callback(is, Head(ls).scope), Tail(ls))

RECURSIVE broadcast(_, _)
broadcast(is, ls) ==
    IF ls = <<>> THEN is
    ELSE broadcast(callback(is, Head(ls).scope), Tail(ls))

destroyHandlerEnabled(ls, i) == SelectSeq(ls, LAMBDA l : l.scope # i)

destroyHandlerDisabled(ls, i) == ls

\* The element's '$destroy' handler: calls cleanUp() when it is enabled.
destroyHandler(ls, i) ==
    IF fix THEN SelectSeq(ls, LAMBDA l : l.scope # i) ELSE ls

RECURSIVE destroyAll(_, _)
destroyAll(ls, S) ==
    IF S = {} THEN ls
    ELSE LET i == CHOOSE j \in S : TRUE
         IN  destroyAll(destroyHandler(ls, i), S \ {i})

(* --------------------- HomeController (app.js) ------------------------- *)

HomeScopeProps == {"isActive", "scenario1", "scenario2", "scenario3", "scenario4"}

\* A JavaScript value that is a path string, or an array holding one.
Str(p) == [type |-> "string", val |-> p]
Arr(p) == [type |-> "array", val |-> p]

NoLocation == [type |-> "undefined", val |-> <<>>]

ViewLocations == {Str(<<"root">>), Arr(<<"root">>), Str(<<"toprated">>)}

\* == in place of ===: an array of one string is loosely equal to the string.
isActiveLoose(viewLocation) == viewLocation.val = path

\* viewLocation === $location.path()
isActive(viewLocation) == viewLocation = Str(path)

scenarioSlip(n) ==
    CASE n = 1 -> 1
      [] n = 2 -> 2
      [] n = 3 -> 3
      [] n = 4 -> 3

\* The ScenariosService method that $scope.scenario<n> calls.
scenario(n) ==
    CASE n = 1 -> 1
      [] n = 2 -> 2
      [] n = 3 -> 3
      [] n = 4 -> 4

(* ------------------------------ state ---------------------------------- *)

NoRoute == [route |-> 0 - 1, path |-> <<>>, params |-> <<>>, gen |-> 0, album |-> ""]

NoView ==
    [gen |-> 0, route |-> 0 - 1, path |-> <<>>, templateUrl |-> "",
     template |-> <<>>, controller |-> "", album |-> ""]

InitCommon ==
    /\ path = <<"">>
    /\ lastNav = <<"">>
    /\ navs = 0
    /\ pc = "commit"
    /\ current = NoRoute
    /\ rootChanges = 0
    /\ requests = <<>>
    /\ view = NoView
    /\ insts = <<>>
    /\ listeners = <<>>
    /\ broadcasts = 0
    /\ ctlCall = 0
    /\ svcLog = <<>>
    /\ isActiveArg = NoLocation
    /\ isActiveRet = FALSE
    /\ homeScope = HomeScopeProps
    /\ rootScopeVal = Undefined

Init == InitCommon /\ fix = FALSE

InitFixed == InitCommon /\ fix = TRUE

(* ------------------------------ actions -------------------------------- *)

locationChangedAlways(p) == TRUE

\* The router reloads only when the path asked for differs from the current.
locationChanged(p) == p # path

\* $location.path(p): a change of path starts a route change, the same path
\* does not.
Navigate(p) ==
    /\ pc = "idle"
    /\ navs < MaxNav
    /\ navs' = navs + 1
    /\ lastNav' = p
    /\ IF locationChanged(p)
       THEN path' = p /\ pc' = "commit"
       ELSE UNCHANGED <<path, pc>>
    /\ UNCHANGED <<current, rootChanges, requests, view, insts, listeners,
                   broadcasts, ctlCall, svcLog, isActiveArg,
                   isActiveRet, homeScope, rootScopeVal, fix>>

\* The route for the new path becomes $route.current and its resolves run.
CommitRoute ==
    /\ pc = "commit"
    /\ LET r == parseRoute(path)
           g == current.gen + 1
           ps == routeParams(path, r)
       IN  /\ current' = [route |-> r, path |-> path, params |-> ps, gen |-> g,
                          album |-> ""]
           /\ rootChanges' = IF path = <<"root">> THEN rootChanges + 1 ELSE rootChanges
           /\ IF "album" \in routeDef(r).resolve
              THEN /\ requests' = Append(requests,
                          [url |-> albumUrl(ps), gen |-> g, path |-> path,
                           response |-> NoResponse, promise |-> NoPromise])
                   /\ pc' = "idle"
              ELSE /\ UNCHANGED requests
                   /\ pc' = "render"
    /\ UNCHANGED <<path, lastNav, navs, view, insts, listeners, broadcasts,
                   ctlCall, svcLog, isActiveArg,
                   isActiveRet, homeScope, rootScopeVal, fix>>

\* The response to request k arrives.  The resolve's promise settles; the
\* route change goes on only if the route is still $route.current.
Respond(k, resp) ==
    /\ pc = "idle"
    /\ k \in DOMAIN requests
    /\ requests[k].response.kind = "pending"
    /\ LET p == albumPromise(resp)
       IN  /\ requests' = [requests EXCEPT ![k].response = resp, ![k].promise = p]
           /\ IF requests[k].gen = current.gen /\ p.state = "fulfilled"
              THEN /\ current' = [current EXCEPT !.album = p.value]
                   /\ pc' = "render"
              ELSE UNCHANGED <<current, pc>>
    /\ UNCHANGED <<path, lastNav, navs, rootChanges, view, insts, listeners,
                   broadcasts, ctlCall, svcLog, isActiveArg,
                   isActiveRet, homeScope, rootScopeVal, fix>>

attachedInsts == {i \in DOMAIN insts : insts[i].attached}

\* ng-view: the old view's scope and element are destroyed, the template of
\* $route.current is inserted and its directives are instantiated.
RenderView ==
    /\ pc = "render"
    /\ LET def == routeDef(current.route)
           old == attachedInsts
           gone == [i \in DOMAIN insts |->
                      IF i \in old
                      THEN [insts[i] EXCEPT !.state = "destroyed", !.attached = FALSE]
                      ELSE insts[i]]
           made == SelectSeq(def.template, LAMBDA t : t = "root-test")
       IN  /\ listeners' = destroyAll(listeners, old)
           /\ insts' = gone \o [k \in 1..Len(made) |-> newInst(current.gen)]
           /\ view' = [gen |-> current.gen, route |-> current.route,
                       path |-> current.path,
                       templateUrl |-> def.templateUrl, template |-> def.template,
                       controller |-> def.controller, album |-> current.album]
           /\ pc' = IF made = <<>> THEN "idle" ELSE "link"
    /\ UNCHANGED <<path, lastNav, navs, current, rootChanges, requests, broadcasts,
                   ctlCall, svcLog, isActiveArg,
                   isActiveRet, homeScope, rootScopeVal, fix>>

compiledInsts == {i \in DOMAIN insts : insts[i].state = "compiled"}

\* The link function of the next rootTest element of the new view.
Link ==
    /\ pc = "link"
    /\ compiledInsts # {}
    /\ LET i == CHOOSE j \in compiledInsts : \A q \in compiledInsts : j <= q
       IN  /\ insts' = linkInsts(insts, i)
           /\ listeners' = linkListeners(listeners, i)
           /\ pc' = IF compiledInsts = {i} THEN "idle" ELSE "link"
    /\ UNCHANGED <<path, lastNav, navs, current, rootChanges, requests, view,
                   broadcasts, ctlCall, svcLog, isActiveArg,
                   isActiveRet, homeScope, rootScopeVal, fix>>

\* 'someEvent' is broadcast on $rootScope: every listener runs, in order.
Broadcast ==
    /\ pc = "idle"
    /\ broadcasts < MaxBroadcast
    /\ broadcasts' = broadcasts + 1
    /\ insts' = broadcast(insts, listeners)
    /\ UNCHANGED <<path, lastNav, navs, pc, current, rootChanges, requests, view,
                   listeners, ctlCall, svcLog, isActiveArg,
                   isActiveRet, homeScope, rootScopeVal, fix>>

\* $scope.scenario<n>()
Scenario(n) ==
    /\ pc = "idle"
    /\ ctlCall' = n
    /\ svcLog' = <<scenario(n)>>
    /\ isActiveArg' = NoLocation
    /\ isActiveRet' = FALSE
    /\ UNCHANGED <<path, lastNav, navs, pc, current, rootChanges, requests, view,
                   insts, listeners, broadcasts, homeScope, rootScopeVal, fix>>

\* $scope.isActive(v)
IsActive(v) ==
    /\ pc = "idle"
    /\ ctlCall' = 5
    /\ svcLog' = <<>>
    /\ isActiveArg' = v
    /\ isActiveRet' = isActive(v)
    /\ UNCHANGED <<path, lastNav, navs, pc, current, rootChanges, requests, view,
                   insts, listeners, broadcasts, homeScope, rootScopeVal, fix>>

Next ==
    \/ \E p \in Paths : Navigate(p)
    \/ CommitRoute
    \/ \E k \in 1..(MaxNav + 1), resp \in Responses : Respond(k, resp)
    \/ RenderView
    \/ Link
    \/ Broadcast
    \/ \E n \in 1..4 : Scenario(n)
    \/ \E v \in ViewLocations : IsActive(v)

Spec == Init /\ [][Next]_vars

SpecFixed == InitFixed /\ [][Next]_vars

(* ------------------------------ claims --------------------------------- *)

Range(s) == {s[k] : k \in DOMAIN s}

\* The rootTest scopes, each holding its large string, that $rootScope
\* reaches through a 'someEvent' listener.
Retained == {l.scope : l \in {m \in Range(listeners) : insts[m.scope].val.defined}}

LinkedEver == {i \in DOMAIN insts : insts[i].state \in {"linked", "destroyed"}}

Destroyed == {i \in DOMAIN insts : insts[i].state = "destroyed"}

Live == {i \in DOMAIN insts : insts[i].state = "linked"}

IsAlbumPath(p) == Len(p) = 2 /\ p[1] = "album" /\ p[2] # ""

KnownPath(p) == IsAlbumPath(p) \/ p \in {<<"toprated">>, <<"root">>, <<"scope">>}

Count(t, tag) == Len(SelectSeq(t, LAMBDA e : e = tag))

\* C1: over route changes into and away from /root and broadcasts, the number
\* of rootTest scopes retained through a 'someEvent' listener never
\* decreases, and every link of rootTest increases it by exactly one.
C1_RetainedGrows ==
    [][ /\ Cardinality(Retained') >= Cardinality(Retained)
        /\ (LinkedEver' # LinkedEver =>
               /\ Cardinality(LinkedEver') = Cardinality(LinkedEver) + 1
               /\ Cardinality(Retained') = Cardinality(Retained) + 1) ]_vars

C1_Witness ==
    /\ ~fix
    /\ pc = "idle"
    /\ Cardinality(Retained) = 2
    /\ Destroyed \cap Retained # {}
    /\ broadcasts > 0

\* C2: cleanUp is never called: a rootTest instance whose element and scope
\* were destroyed still has its listener on $rootScope, and the listener
\* still references the destroyed scope and the detached element.
C2_ListenerNeverDeregistered ==
    \A i \in Destroyed :
        /\ ~insts[i].attached
        /\ \E l \in Range(listeners) : l.scope = i /\ l.element = i

C2_Witness ==
    /\ ~fix
    /\ pc = "idle"
    /\ \E i \in Destroyed : someEventListener(i) \in Range(listeners)
    /\ view.route # 3

\* C3: with the $destroy handler enabled, the registered 'someEvent'
\* listeners are exactly those of the instances linked and not destroyed; a
\* destroyed instance has no listener and $rootScope does not reach its scope.
C3_FixedListenersAreLive ==
    fix =>
        /\ {l.scope : l \in Range(listeners)} = Live
        /\ Len(listeners) = Cardinality(Live)
        /\ \A i \in Destroyed :
              /\ ~insts[i].attached
              /\ \A l \in Range(listeners) : l.scope # i

C3_Witness ==
    /\ fix
    /\ pc = "idle"
    /\ Destroyed # {}
    /\ Live # {}
    /\ Len(listeners) = 1

\* C4: each path selects one route: /album/<albumId> the album template with
\* AlbumController and the album resolve, /toprated the top-rated template
\* with TopRatedController, /root the inline template with exactly one
\* <root-test>, /scope the inline template with exactly one <scope-test>;
\* no path matches two route patterns.
C4_RouteOf(p, def) ==
    /\ IsAlbumPath(p) =>
          /\ def.templateUrl = "app/album/album.html"
          /\ def.controller = "AlbumController"
    /\ p = <<"toprated">> =>
          /\ def.templateUrl = "app/toprated/toprated.html"
          /\ def.controller = "TopRatedController"
    /\ p = <<"root">> =>
          /\ def.templateUrl = ""
          /\ Count(def.template, "root-test") = 1
          /\ Count(def.template, "scope-test") = 0
    /\ p = <<"scope">> =>
          /\ def.templateUrl = ""
          /\ Count(def.template, "scope-test") = 1
          /\ Count(def.template, "root-test") = 0

C4_RouterDeterministic ==
    /\ Cardinality(matching(path)) <= 1
    /\ pc # "commit" =>
          /\ current.path = path
          /\ C4_RouteOf(path, routeDef(current.route))
          /\ IsAlbumPath(path) =>
                /\ routeDef(current.route).resolve = {"album"}
                /\ current.params["albumId"] = path[2]
    /\ view.gen > 0 => C4_RouteOf(view.path, view)

C4_Witness ==
    /\ pc = "idle"
    /\ path = <<"root">>
    /\ view.gen = 4
    /\ view.template = <<"div", "root-test">>
    /\ Len(requests) = 1
    /\ requests[1].path = <<"album", "a">>

\* C5: a path that matches none of /album/:albumId, /toprated, /root, /scope
\* selects the default route, and once the route change is done the view is
\* the albums template with AlbumsController.
C5_DefaultRoute ==
    ~KnownPath(path) =>
        /\ pc # "commit" =>
              /\ current.route = 0
              /\ routeDef(current.route).templateUrl = "app/albums/albums.html"
              /\ routeDef(current.route).controller = "AlbumsController"
        /\ pc = "idle" =>
              /\ view.gen = current.gen
              /\ view.templateUrl = "app/albums/albums.html"
              /\ view.controller = "AlbumsController"

C5_Witness ==
    /\ pc = "idle"
    /\ navs = 1
    /\ path = <<"nowhere">>
    /\ view.gen = 2
    /\ view.controller = "AlbumsController"

\* C6: navigating to the path that is already current changes neither the
\* route nor the view, runs no link and registers no listener.
C6_SamePathNoReload ==
    [][ (navs' # navs /\ lastNav' = path) =>
           UNCHANGED <<path, pc, current, rootChanges, requests, view, insts,
                       listeners>> ]_vars

C6_Witness ==
    /\ pc = "idle"
    /\ navs = 2
    /\ current.gen = 2
    /\ lastNav = <<"root">>
    /\ Len(listeners) = 1

\* C7: every route change into /album/<albumId> issues a GET to 'api/album/'
\* followed by that albumId, and the album the route resolves to is the data
\* of that request's response.
C7_AlbumRequest ==
    /\ (pc # "commit" /\ IsAlbumPath(path)) =>
          \E k \in DOMAIN requests :
             requests[k].gen = current.gen /\ requests[k].path = path
    /\ \A k \in DOMAIN requests :
          /\ IsAlbumPath(requests[k].path)
          /\ requests[k].url = "api/album/" \o requests[k].path[2]
    /\ \A k \in DOMAIN requests :
          requests[k].promise.state = "fulfilled" =>
             /\ requests[k].response.kind = "ok"
             /\ requests[k].promise.value = requests[k].response.data
    /\ view.route = 1 =>
          \E k \in DOMAIN requests :
             /\ requests[k].gen = view.gen
             /\ requests[k].path = view.path
             /\ requests[k].response.kind = "ok"
             /\ view.album = requests[k].response.data

C7_Witness ==
    /\ pc = "idle"
    /\ path = <<"album", "b">>
    /\ view.route = 1
    /\ view.gen = current.gen
    /\ view.album = "Nepal"
    /\ \E k \in DOMAIN requests : requests[k].url = "api/album/b"

\* C8: each route change into /album/<albumId> issues exactly one GET; when
\* it fails the album resolve is rejected with the failure itself, no second
\* request is issued and no album value is produced.
C8_NoRetry ==
    /\ \A g \in 1..current.gen :
          Cardinality({k \in DOMAIN requests : requests[k].gen = g}) <= 1
    /\ pc # "commit" =>
          Cardinality({k \in DOMAIN requests : requests[k].gen = current.gen})
             = IF IsAlbumPath(path) THEN 1 ELSE 0
    /\ \A k \in DOMAIN requests :
          requests[k].response.kind = "error" =>
             /\ requests[k].promise.state = "rejected"
             /\ requests[k].promise.reason = requests[k].response
             /\ requests[k].promise.value = ""
             /\ view.gen # requests[k].gen
             /\ current.gen = requests[k].gen => current.album = ""

C8_Witness ==
    /\ pc = "idle"
    /\ Len(requests) = 1
    /\ requests[1].response.kind = "error"
    /\ requests[1].promise.state = "rejected"
    /\ current.gen = requests[1].gen
    /\ current.album = ""
    /\ view.gen < current.gen

\* C9: one call of $scope.scenario<n> calls ScenariosService.scenario<n>
\* once, calls no other scenario of the service and leaves the controller's
\* scope as it was.
C9_ScenarioWiring ==
    /\ homeScope = HomeScopeProps
    /\ \A n \in 1..4 : ctlCall = n => svcLog = <<n>>

C9_Witness == ctlCall = 4 /\ svcLog = <<4>> /\ rootChanges = 1

\* C10: a 'someEvent' handler is registered only by a link that runs after
\* the /root template of the current route was rendered, one handler per
\* link, and once a route change is done the number of registered handlers
\* is the number of route changes into /root.
C10_Registers ==
    Len(listeners') # Len(listeners) =>
        /\ pc = "link"
        /\ view.gen = current.gen
        /\ view.path = <<"root">>
        /\ Count(view.template, "root-test") = 1
        /\ Len(listeners') = Len(listeners) + 1
        /\ Cardinality(LinkedEver') = Cardinality(LinkedEver) + 1

C10_LeakFlowOrdered ==
    /\ [](pc = "idle" => Len(listeners) = rootChanges)
    /\ [](pc = "link" => view.gen = current.gen /\ view.path = <<"root">>)
    /\ [][C10_Registers]_vars

C10_Witness ==
    /\ ~fix
    /\ pc = "idle"
    /\ rootChanges = 2
    /\ Len(listeners) = 2
    /\ view.gen = current.gen
    /\ path = <<"root">>

\* C11: handlers run to completion: while a route change is being committed,
\* rendered and linked no other callback runs; whenever the 'someEvent'
\* listener of an instance is registered its scope.val is assigned, and no
\* broadcast finds a listener whose scope.val is unassigned.
C11_NoOtherCallback ==
    pc # "idle" =>
        /\ broadcasts' = broadcasts
        /\ navs' = navs
        /\ ctlCall' = ctlCall
        /\ \A k \in DOMAIN requests : requests'[k] = requests[k]

C11_CallbackSeesVal ==
    broadcasts' # broadcasts =>
        \A l \in Range(listeners) : insts[l.scope].val.defined

C11_RunToCompletion ==
    /\ [](\A l \in Range(listeners) :
             /\ insts[l.scope].val.defined
             /\ insts[l.scope].state # "compiled")
    /\ [][C11_NoOtherCallback]_vars
    /\ [][C11_CallbackSeesVal]_vars

C11_Witness ==
    /\ pc = "idle"
    /\ broadcasts = 1
    /\ Len(listeners) = 1
    /\ insts[listeners[1].scope].tooltips = 1
    /\ insts[listeners[1].scope].val.defined

\* C12: each broadcast of 'someEvent' runs the callback of every rootTest
\* instance ever linked exactly once, destroyed ones included: one
\* element.tooltip call and one assignment of the string to scope.val each.
C12_BroadcastStep ==
    broadcasts' = broadcasts + 1 =>
        /\ DOMAIN insts' = DOMAIN insts
        /\ \A i \in LinkedEver :
              /\ insts'[i].tooltips = insts[i].tooltips + 1
              /\ insts'[i].val = [defined |-> TRUE, ch |-> "x", len |-> ArrayLen - 1]
              /\ insts'[i].state = insts[i].state
              /\ insts'[i].attached = insts[i].attached

C12_EveryCallbackOnce == [][C12_BroadcastStep]_vars

C12_Witness ==
    /\ pc = "idle"
    /\ broadcasts = 2
    /\ \E i \in Destroyed : insts[i].tooltips = 2 /\ ~insts[i].attached
    /\ \E i \in Live : insts[i].tooltips = 1

\* C13: under overlapping navigations the album resolve of a route reads
\* that route's albumId, and the album of the view rendered for /album/<id>
\* is the response to api/album/<id>; the response to a request of a route
\* that is no longer current changes neither the route nor the view.
C13_StaleResponse ==
    \A k \in DOMAIN requests :
        (/\ requests[k].response.kind = "pending"
         /\ requests'[k].response.kind # "pending"
         /\ requests[k].gen # current.gen)
            => UNCHANGED <<current, view, pc>>

C13_OverlappingNavigations ==
    /\ [](\A k \in DOMAIN requests :
             requests[k].url = "api/album/" \o requests[k].path[2])
    /\ [](view.route = 1 =>
             \E k \in DOMAIN requests :
                /\ requests[k].gen = view.gen
                /\ requests[k].url = "api/album/" \o view.path[2]
                /\ requests[k].response.kind = "ok"
                /\ view.album = requests[k].response.data)
    /\ []((pc = "idle" /\ view.route = 1 /\ view.gen = current.gen) =>
             view.path = path)
    /\ [][C13_StaleResponse]_vars

C13_Witness ==
    /\ pc = "idle"
    /\ Len(requests) = 2
    /\ requests[1].url = "api/album/a"
    /\ requests[1].response.kind = "pending"
    /\ requests[2].url = "api/album/b"
    /\ view.path = <<"album", "b">>
    /\ view.album = "Nepal"

\* C14: a broadcast of 'someEvent' leaves the registered listeners and the
\* retained scopes as they were, and each retained scope holds the one large
\* string in val before and after it; the retained scopes are as many as the
\* links, whatever the number of broadcasts.
C14_BroadcastFrame ==
    broadcasts' = broadcasts + 1 =>
        /\ listeners' = listeners
        /\ Retained' = Retained
        /\ \A i \in Retained :
              /\ insts[i].val.len = ArrayLen - 1
              /\ insts'[i].val.len = ArrayLen - 1

C14_BroadcastDoesNotGrowLeak ==
    /\ [][C14_BroadcastFrame]_vars
    /\ [](pc = "idle" => Cardinality(Retained) = Cardinality(LinkedEver))
    /\ [](\A i \in Retained : insts[i].val.len = ArrayLen - 1)

C14_Witness ==
    /\ pc = "idle"
    /\ broadcasts = 2
    /\ Cardinality(Retained) = 2
    /\ \A i \in Retained : insts[i].tooltips >= 1

\* C17: once a rootTest instance is linked its scope.val is the string of
\* exactly 999998 'x' characters, after link and after every broadcast.
C17_ValLength ==
    \A i \in LinkedEver :
        insts[i].val = [defined |-> TRUE, ch |-> "x", len |-> 999998]

C17_Witness ==
    /\ pc = "idle"
    /\ \E i \in LinkedEver : insts[i].tooltips = 2 /\ insts[i].val.len = 999998
    /\ \E i \in LinkedEver : insts[i].tooltips = 0 /\ insts[i].val.len = 999998

\* C15: only the /root route registers 'someEvent' listeners: a step that
\* ends on a path other than /root (a route change into /album/<id>,
\* /toprated, /scope or the default route) and a call of isActive or of
\* scenario1..scenario4 neither adds nor removes a listener.
HomeCalls == <<ctlCall, svcLog, isActiveArg, isActiveRet>>

C15_OtherStep ==
    (path' # <<"root">> \/ HomeCalls' # HomeCalls) => listeners' = listeners

C15_OnlyRootRegisters == [][C15_OtherStep]_vars

C15_Witness ==
    /\ pc = "idle"
    /\ Len(listeners) = 1
    /\ view.path = <<"album", "a">>
    /\ view.gen = current.gen
    /\ ctlCall = 5

\* C16: each rootTest instance has its own scope: the link of an instance
\* writes the val of that instance only, a broadcast runs on each instance
\* the callbacks registered for it and no other, instances are not otherwise
\* changed by either, and $rootScope.val is never written.
C16_LinkStep ==
    LinkedEver' # LinkedEver =>
        \A j \in DOMAIN insts :
            IF j \in LinkedEver' \ LinkedEver
            THEN insts'[j].val.defined /\ ~insts[j].val.defined
            ELSE insts'[j] = insts[j]

C16_BroadcastStep ==
    broadcasts' # broadcasts =>
        \A j \in DOMAIN insts :
            /\ insts'[j].tooltips = insts[j].tooltips
                  + Cardinality({k \in DOMAIN listeners : listeners[k].scope = j})
            /\ [insts'[j] EXCEPT !.tooltips = 0, !.val = Undefined]
                  = [insts[j] EXCEPT !.tooltips = 0, !.val = Undefined]

C16_InstancesIsolated ==
    /\ [](rootScopeVal = Undefined)
    /\ [](\A k, m \in DOMAIN listeners : k # m => listeners[k].scope # listeners[m].scope)
    /\ [][C16_LinkStep]_vars
    /\ [][C16_BroadcastStep]_vars

C16_Witness ==
    /\ pc = "idle"
    /\ Len(insts) = 2
    /\ insts[1].tooltips = 1
    /\ insts[2].tooltips = 0
    /\ insts[1].val.defined
    /\ insts[2].val.defined

\* C18: isActive(viewLocation) returns true exactly when viewLocation is a
\* string equal to the current $location.path(); the call changes nothing
\* else, and of pairwise distinct view locations at most one is active.
C18_IsActiveStep ==
    (ctlCall' = 5 /\ HomeCalls' # HomeCalls) =>
        /\ isActiveRet' = (isActiveArg'.type = "string" /\ isActiveArg'.val = path)
        /\ UNCHANGED <<path, lastNav, navs, pc, current, rootChanges, requests,
                       view, insts, listeners, broadcasts, homeScope,
                       rootScopeVal, fix>>

C18_IsActive ==
    /\ [][C18_IsActiveStep]_vars
    /\ [](Cardinality({v \in ViewLocations : isActive(v)}) <= 1)
    /\ [](\A v \in ViewLocations :
             isActive(v) <=> (v.type = "string" /\ v.val = path))

C18_Witness ==
    /\ ctlCall = 5
    /\ isActiveArg = Str(<<"root">>)
    /\ isActiveRet
    /\ path = <<"root">>
    /\ pc = "idle"

====
